---------------------------- MODULE Spec2Model ----------------------------
(***************************************************************************)
(* Model of awareutils.vision.img (class Img): an image value backed by a  *)
(* BGR array, an RGB array or a PIL image, its converters, open/save with   *)
(* JSON metadata in the EXIF UserComment field, and crop/resize.           *)
(*                                                                         *)
(* The external libraries are modelled at the calls the class makes:       *)
(*   numpy   ndarray = [kind, px, contig]; px[r][c] is a 3-channel pixel,   *)
(*           axis 0 = rows (height), axis 1 = columns (width); contig is   *)
(*           flags.c_contiguous.  Non-contiguous arrays are column windows *)
(*           of a wider buffer, which is what slicing produces.            *)
(*   cv2     cvtColor swaps channels 0 and 2; imread/imwrite use BGR.       *)
(*   PIL     image = [kind, px] with px in RGB order.                      *)
(*   file    [px (RGB order), exif (optional EXIF IFD)], lossless codec.    *)
(*   piexif  an EXIF block is the function tag -> bytes of its Exif IFD.    *)
(*   json    text is a sequence of tokens; dumps prints, loads parses.     *)
(* Python's None and optional values are the empty sequence <<>>; a        *)
(* present value v is <<v>>.                                               *)
(***************************************************************************)
EXTENDS Integers, Sequences, FiniteSets, TLC

VARIABLES img, op, args, ret, files

vars == <<img, op, args, ret, files>>

\* Largest height and width of the arrays built, cropped and resized.
MaxDim == 2

None == <<>>

Some(v) == <<v>>

-----------------------------------------------------------------------------
\* ImgType (the enum) and the values a caller can pass for it.
BGR == "BGR"

RGB == "RGB"

PIL == "PIL"

ImgType == {BGR, RGB, PIL}

-----------------------------------------------------------------------------
\* numpy / cv2 / PIL at the calls the class makes.

Height(px) == Len(px)

Width(px) == Len(px[1])

ndarray(px, contig) == [kind |-> "ndarray", px |-> px, contig |-> contig]

PILImage(px) == [kind |-> "PIL", px |-> px]

\* Variant of IsPILImage: the isinstance test accepts any source.
IsPILImage_any(source) == TRUE

\* isinstance(source, np.ndarray), isinstance(source, PILImageModule.Image)
IsNdarray(source) == source.kind = "ndarray"

IsPILImage(source) == source.kind = "PIL"

\* np.ascontiguousarray(a): a itself when contiguous, else a contiguous copy.
ascontiguousarray(a) == ndarray(a.px, TRUE)

\* The channel permutation of cv2.COLOR_BGR2RGB and cv2.COLOR_RGB2BGR.
SwapRB(p) == <<p[3], p[2], p[1]>>

\* cv2.cvtColor(a, COLOR_BGR2RGB | COLOR_RGB2BGR): a new contiguous array.
cvtColor(a) ==
  ndarray([r \in 1..Height(a.px) |-> [c \in 1..Width(a.px) |-> SwapRB(a.px[r][c])]], TRUE)

\* np.array(pil): the pixels of a PIL image as a new contiguous RGB array.
np_array(pil) == ndarray(pil.px, TRUE)

\* PILImageModule.fromarray(a): a PIL image holding the array's pixels.
fromarray(a) == PILImage(a.px)

-----------------------------------------------------------------------------
\* json: values and text.  A metadata mapping is a function from string keys
\* to atoms; an atom is a JSON string or a JSON number (kept as its literal).

Str(s) == [t |-> "str", s |-> s]

Num(s) == [t |-> "num", s |-> s]

\* Tokens of JSON text.
LBrace == [k |-> "punct", s |-> "{"]

RBrace == [k |-> "punct", s |-> "}"]

Colon == [k |-> "punct", s |-> ":"]

Comma == [k |-> "punct", s |-> ","]

StringTok(s) == [k |-> "string", s |-> s]

NumberTok(s) == [k |-> "number", s |-> s]

\* How json.dumps prints an atom, and how json.loads reads a literal token.
AtomTok(a) == IF a.t = "str" THEN StringTok(a.s) ELSE NumberTok(a.s)

TokAtom(tok) == IF tok.k = "string" THEN Str(tok.s) ELSE Num(tok.s)

IsLiteral(tok) == tok.k \in {"string", "number"}

RECURSIVE DumpMembers(_, _)
DumpMembers(m, keys) ==
  IF keys = {} THEN <<>>
  ELSE LET key == CHOOSE x \in keys : TRUE
           rest == keys \ {key}
       IN <<StringTok(key), Colon, AtomTok(m[key])>>
            \o (IF rest = {} THEN <<>> ELSE <<Comma>> \o DumpMembers(m, rest))

\* json.dumps(metadata).encode("utf8"): the text of a mapping.
json_dumps(m) == <<LBrace>> \o DumpMembers(m, DOMAIN m) \o <<RBrace>>

\* The text is one JSON object: "{" [string ":" literal {"," string ":" literal}] "}".
\* Member j (from 0) has its key at 2+4j, its colon at 3+4j, its value at 4+4j
\* and, unless it is the last, a comma at 5+4j.
NMembers(text) == (Len(text) - 1) \div 4

IsJsonObject(text) ==
  /\ Len(text) >= 2
  /\ text[1] = LBrace
  /\ text[Len(text)] = RBrace
  /\ \/ Len(text) = 2
     \/ /\ (Len(text) - 1) % 4 = 0
        /\ \A j \in 0..(NMembers(text) - 1) :
             /\ text[2 + 4 * j].k = "string"
             /\ text[3 + 4 * j] = Colon
             /\ IsLiteral(text[4 + 4 * j])
             /\ (j < NMembers(text) - 1) => (text[5 + 4 * j] = Comma)

\* The value of member key: of the last member with that key, as Python does.
MemberValue(text, key) ==
  LET js == {j \in 0..(NMembers(text) - 1) : text[2 + 4 * j].s = key}
      last == CHOOSE j \in js : \A i \in js : i <= j
  IN TokAtom(text[4 + 4 * last])

\* json.loads(text): [ok |-> the text parsed, val |-> the mapping].
json_loads(text) ==
  IF ~IsJsonObject(text) THEN [ok |-> FALSE, val |-> <<>>]
  ELSE [ok |-> TRUE,
        val |-> [key \in {text[2 + 4 * j].s : j \in 0..(NMembers(text) - 1)}
                   |-> MemberValue(text, key)]]

-----------------------------------------------------------------------------
\* piexif: an EXIF block is the function from the tags of its Exif IFD to
\* their bytes.
UserComment == "UserComment"

\* Variant of piexif_dump: the text goes under another tag.
piexif_dump_other_tag(text) == ("ImageDescription" :> text)

\* piexif.dump({"Exif": {piexif.ExifIFD.UserComment: text}})
piexif_dump(text) == (UserComment :> text)

-----------------------------------------------------------------------------
\* The outcome of one call: the exception raised ("" when none), the Img
\* returned, the array or PIL image returned by a converter, the encoder
\* call made by save, and whether the constructor logged its warning.
NoRet == [err |-> "", img |-> None, out |-> None, enc |-> None, warned |-> FALSE]

Raise(e) == [NoRet EXCEPT !.err = e]

ErrNotPIL == "RuntimeError: Set source type to PIL but source isn't a PIL Image"

ErrNotArray == "RuntimeError: Set source to RGB/BGR but isn't an np.ndarray"

ErrUnknownType == "RuntimeError: Unknown source type"

ErrImread == "RuntimeError: Failed to read with cv2"

ErrExifInUse == "RuntimeError: We're saving metadata in EXIF already"

ErrPILCrop == "RuntimeError: PIL crops are always copys"

ErrFileNotFound == "FileNotFoundError"

ErrKeyError == "KeyError: UserComment"

ErrJSONDecode == "json.JSONDecodeError"

-----------------------------------------------------------------------------
\* class Img

\* Img._get_size: (h, w) of a PIL image, shape[:2] of an array.
get_size(source, itype) ==
  IF itype = PIL
  THEN [w |-> Width(source.px), h |-> Height(source.px)]
  ELSE [w |-> Width(source.px), h |-> Height(source.px)]

\* Img.__init__.  self.source is bound to the argument first; the contiguous
\* copy made later is bound to the local name source only, and the size is
\* read from self.source.
Img(source, itype, metadata, make_arrays_contiguous) ==
  LET self_source == source
      Built(warned) ==
        [NoRet EXCEPT
           !.img = Some([source |-> self_source,
                         itype |-> itype,
                         metadata |-> metadata,
                         make_arrays_contiguous |-> make_arrays_contiguous,
                         size |-> get_size(self_source, itype),
                         h |-> get_size(self_source, itype).h,
                         w |-> get_size(self_source, itype).w]),
           !.warned = warned]
  IN IF itype = PIL THEN
       IF ~IsPILImage(source) THEN Raise(ErrNotPIL) ELSE Built(FALSE)
     ELSE IF itype \in {RGB, BGR} THEN
       IF ~IsNdarray(source) THEN Raise(ErrNotArray)
       ELSE LET local_source ==
                  IF ~source.contig /\ make_arrays_contiguous
                  THEN ascontiguousarray(source) ELSE source
            IN Built(~source.contig /\ ~make_arrays_contiguous)
     ELSE Raise(ErrUnknownType)

\* Variant of rgb: a BGR source is returned without the channel swap.
rgb_no_conversion(self) ==
  LET arr == IF self.itype = PIL THEN np_array(self.source) ELSE self.source
  IN IF self.make_arrays_contiguous THEN ascontiguousarray(arr) ELSE arr

\* Img.rgb
rgb(self) ==
  LET arr == IF self.itype = PIL THEN np_array(self.source)
             ELSE IF self.itype = RGB THEN self.source
             ELSE cvtColor(self.source)
  IN IF self.make_arrays_contiguous THEN ascontiguousarray(arr) ELSE arr

\* Img.bgr
bgr(self) ==
  LET arr == IF self.itype = PIL THEN cvtColor(np_array(self.source))
             ELSE IF self.itype = RGB THEN cvtColor(self.source)
             ELSE self.source
  IN IF self.make_arrays_contiguous THEN ascontiguousarray(arr) ELSE arr

\* Img.pil
pil(self) ==
  IF self.itype = PIL THEN self.source
  ELSE IF self.itype = RGB THEN fromarray(ascontiguousarray(self.source))
  ELSE fromarray(cvtColor(ascontiguousarray(self.source)))

-----------------------------------------------------------------------------
\* Files and codecs.  fs[path] is None or Some([px, exif]): the decoded
\* pixels in RGB order and the optional EXIF block of the file.

File(px, exif) == [px |-> px, exif |-> exif]

\* cv2.imread(path): None when the file cannot be read, else a BGR array.
cv2_imread(fs, path) ==
  IF fs[path] = None THEN None
  ELSE Some(cvtColor(ndarray(fs[path][1].px, TRUE)))

\* PILImageModule.open(path) of a readable file, and its info.get("exif").
PIL_open(fs, path) == PILImage(fs[path][1].px)

PIL_info_exif(fs, path) == fs[path][1].exif

\* cv2.imwrite(path, arr): arr holds BGR; no options, no EXIF block.
cv2_imwrite(arr) == File(cvtColor(arr).px, None)

\* pil.save(path, **kwargs): the exif keyword, when given, is the EXIF block.
PIL_save(image, kwargs) == File(image.px, kwargs.exif)

\* The keyword arguments of save: each of exif, optimize is None or Some(v).
NoKwargs == [exif |-> None, optimize |-> None]

\* Img.open.  The constructor calls use the default make_arrays_contiguous.
open(fs, path, itype, load_metadata) ==
  IF ~load_metadata THEN
    IF itype = BGR THEN
      IF cv2_imread(fs, path) = None THEN Raise(ErrImread)
      ELSE Img(cv2_imread(fs, path)[1], BGR, None, TRUE)
    ELSE IF itype = RGB THEN
      IF cv2_imread(fs, path) = None THEN Raise(ErrImread)
      ELSE Img(cvtColor(cv2_imread(fs, path)[1]), RGB, None, TRUE)
    ELSE
      IF fs[path] = None THEN Raise(ErrFileNotFound)
      ELSE Img(PIL_open(fs, path), PIL, None, TRUE)
  ELSE
    IF fs[path] = None THEN Raise(ErrFileNotFound)
    ELSE
      LET image == PIL_open(fs, path)
          exif == PIL_info_exif(fs, path)
          \* piexif.load(meta)["Exif"][piexif.ExifIFD.UserComment]
          missing == exif # None /\ UserComment \notin DOMAIN exif[1]
          parsed == json_loads(exif[1][UserComment])
          meta == IF exif = None THEN None ELSE Some(parsed.val)
      IN IF missing THEN Raise(ErrKeyError)
         ELSE IF exif # None /\ ~parsed.ok THEN Raise(ErrJSONDecode)
         ELSE IF itype = BGR THEN Img(cvtColor(np_array(image)), BGR, meta, TRUE)
         ELSE IF itype = RGB THEN Img(np_array(image), RGB, meta, TRUE)
         ELSE Img(image, PIL, meta, TRUE)

\* Img.save, line by line.

\* Variant of should_save_metadata: the save_metadata flag is ignored.
should_save_metadata_ignores_flag(self, save_metadata) == self.metadata # None

\* should_save_metadata = save_metadata and self.metadata is not None
should_save_metadata(self, save_metadata) == save_metadata /\ self.metadata # None

\* Variant of exif_in_use: the caller's exif is silently replaced.
exif_in_use_never(self, save_metadata, kwargs) == FALSE

\* if should_save_metadata: if "exif" in kwargs: raise
exif_in_use(self, save_metadata, kwargs) ==
  should_save_metadata(self, save_metadata) /\ kwargs.exif # None

\* kwargs["exif"] = piexif.dump({"Exif": {UserComment: json.dumps(metadata)}})
with_exif(self, save_metadata, kwargs) ==
  IF should_save_metadata(self, save_metadata)
  THEN [kwargs EXCEPT !.exif = Some(piexif_dump(json_dumps(self.metadata[1])))]
  ELSE kwargs

\* Variant of with_optimize: optimize is set whatever the caller passed.
with_optimize_always(kwargs) == [kwargs EXCEPT !.optimize = Some(TRUE)]

\* if "optimize" not in kwargs: kwargs["optimize"] = True
with_optimize(kwargs) ==
  IF kwargs.optimize = None THEN [kwargs EXCEPT !.optimize = Some(TRUE)] ELSE kwargs

\* Img.save: [ret |-> the outcome, file |-> what is at path afterwards].
\* ret.enc records the one encoder call: which encoder, the keyword
\* arguments it was given, and how many cvtColor calls prepared its image.
save(self, fs, path, save_metadata, kwargs) ==
  IF self.itype = PIL \/ should_save_metadata(self, save_metadata) THEN
    IF exif_in_use(self, save_metadata, kwargs)
    THEN [ret |-> Raise(ErrExifInUse), file |-> fs[path]]
    ELSE
      LET final == with_optimize(with_exif(self, save_metadata, kwargs))
      IN [ret |-> [NoRet EXCEPT
                     !.enc = Some([encoder |-> "PIL.save",
                                   kwargs |-> final,
                                   cvt |-> IF self.itype = BGR THEN 1 ELSE 0])],
          file |-> Some(PIL_save(pil(self), final))]
  ELSE IF self.itype = RGB THEN
    [ret |-> [NoRet EXCEPT
                !.enc = Some([encoder |-> "cv2.imwrite", kwargs |-> NoKwargs,
                              cvt |-> 1])],
     file |-> Some(cv2_imwrite(cvtColor(self.source)))]
  ELSE
    [ret |-> [NoRet EXCEPT
                !.enc = Some([encoder |-> "cv2.imwrite", kwargs |-> NoKwargs,
                              cvt |-> 0])],
     file |-> Some(cv2_imwrite(self.source))]

-----------------------------------------------------------------------------
\* Geometry.

\* The sampling of cv2.resize and of PIL's resize: the result has height rows
\* and width columns, each pixel taken from the nearest source pixel.
Resample(px, width, height) ==
  [r \in 1..height |->
     [c \in 1..width |->
        px[((r - 1) * Height(px)) \div height + 1][((c - 1) * Width(px)) \div width + 1]]]

\* The region [x0, x1] x [y0, y1] of px, both ends inclusive (0-based).
Region(px, rectangle) ==
  [r \in 1..(rectangle.y1 - rectangle.y0 + 1) |->
     [c \in 1..(rectangle.x1 - rectangle.x0 + 1) |->
        px[rectangle.y0 + r][rectangle.x0 + c]]]

\* Rectangle.slice_array(arr): the view arr[y0:y1+1, x0:x1+1].  A view is
\* C-contiguous when it has one row, or spans the full rows of a contiguous
\* array.
slice_array(rectangle, arr) ==
  ndarray(Region(arr.px, rectangle),
          \/ rectangle.y1 = rectangle.y0
          \/ arr.contig /\ rectangle.x0 = 0 /\ rectangle.x1 = Width(arr.px) - 1)

\* Img.resize
resize(self, width, height) ==
  IF self.itype = PIL
  THEN Img(PILImage(Resample(self.source.px, width, height)), self.itype, self.metadata, TRUE)
  ELSE Img(ndarray(Resample(self.source.px, width, height), TRUE), self.itype,
           self.metadata, TRUE)

\* Variant of crop: the new Img is built without the receiver's metadata.
crop_drops_metadata(self, rectangle, copy) ==
  IF self.itype = PIL THEN
    IF ~copy THEN Raise(ErrPILCrop)
    ELSE Img(PILImage(Region(self.source.px, rectangle)), self.itype, None, TRUE)
  ELSE
    LET view == slice_array(rectangle, self.source)
        source == IF copy THEN ndarray(view.px, TRUE) ELSE view
    IN Img(source, self.itype, None, TRUE)

\* Variant of crop: a PIL source is cropped whatever copy says.
crop_pil_always(self, rectangle, copy) ==
  IF self.itype = PIL THEN
    Img(PILImage(Region(self.source.px, rectangle)), self.itype, self.metadata, TRUE)
  ELSE
    LET view == slice_array(rectangle, self.source)
        source == IF copy THEN ndarray(view.px, TRUE) ELSE view
    IN Img(source, self.itype, self.metadata, TRUE)

\* Img.crop
crop(self, rectangle, copy) ==
  IF self.itype = PIL THEN
    IF ~copy THEN Raise(ErrPILCrop)
    ELSE Img(PILImage(Region(self.source.px, rectangle)), self.itype, self.metadata, TRUE)
  ELSE
    LET view == slice_array(rectangle, self.source)
        source == IF copy THEN ndarray(view.px, TRUE) ELSE view
    IN Img(source, self.itype, self.metadata, TRUE)

-----------------------------------------------------------------------------
\* The inputs of the calls.

\* Two 8-bit pixels: one that the channel swap changes, one it does not.
Orange == <<255, 128, 0>>

Black == <<0, 0, 0>>

\* An h x w picture: black, with an orange pixel in the first row and column.
Marked(h, w) ==
  [r \in 1..h |-> [c \in 1..w |-> IF r = 1 /\ c = 1 THEN Orange ELSE Black]]

\* Arrays and PIL images handed to the constructor: a full array, a
\* non-contiguous window of a wider array, a PIL image.
InputSources ==
  { ndarray(Marked(1, 1), TRUE),
    ndarray(Marked(MaxDim, MaxDim), TRUE),
    ndarray(Marked(MaxDim, MaxDim), FALSE),
    PILImage(Marked(MaxDim, MaxDim)) }

\* What a caller can pass as itype: a member of the enum, or anything else.
ItypeInputs == ImgType \cup {"OTHER"}

LabelScore == ("label" :> Str("cat")) @@ ("score" :> Num("0.87"))

\* metadata: None, the empty mapping, a mapping with a string and a float.
MetaValues == {None, Some(<<>>), Some(LabelScore)}

\* EXIF blocks written by other programs: one without the UserComment tag,
\* one whose UserComment is not JSON.
CameraExif == ("DateTimeOriginal" :> <<StringTok("2021:01:01")>>)

BrokenExif == (UserComment :> <<LBrace, StringTok("label")>>)

Paths == {"out.png", "plain.png", "camera.jpg", "broken.jpg"}

\* The paths save is called with.
SavePaths == {"out.png"}

InitFiles ==
  [path \in Paths |->
     CASE path = "plain.png" -> Some(File(Marked(MaxDim, MaxDim), None))
       [] path = "camera.jpg" -> Some(File(Marked(1, 1), Some(CameraExif)))
       [] path = "broken.jpg" -> Some(File(Marked(1, 1), Some(BrokenExif)))
       [] OTHER -> None]

KwargsInputs ==
  { NoKwargs,
    [exif |-> None, optimize |-> Some(FALSE)],
    [exif |-> Some(CameraExif), optimize |-> None] }

Rectangles ==
  { [x0 |-> x0, y0 |-> y0, x1 |-> x1, y1 |-> y1] :
      x0 \in 0..(MaxDim - 1), y0 \in 0..(MaxDim - 1),
      x1 \in 0..(MaxDim - 1), y1 \in 0..(MaxDim - 1) }

\* A rectangle that lies inside an image of the given size.
Inside(rectangle, size) ==
  /\ rectangle.x0 <= rectangle.x1 /\ rectangle.x1 < size.w
  /\ rectangle.y0 <= rectangle.y1 /\ rectangle.y1 < size.h

-----------------------------------------------------------------------------
\* The state: img is the Img the caller holds (None before the first), op
\* and args the last call and its arguments, ret its outcome, files the file
\* system.  A caller writes img = Img(...) or img = Img.open(...): when the
\* call raises, img keeps its value.

Init ==
  /\ img = None
  /\ op = "init"
  /\ args = [path |-> ""]
  /\ ret = NoRet
  /\ files = InitFiles

Bind(r) == IF r.err = "" THEN r.img ELSE img

\* img = Img(source, itype, metadata, make_arrays_contiguous); the source is
\* an input, or the array or PIL image a converter just returned.
Construct ==
  \E source \in InputSources \cup {ret.out[i] : i \in DOMAIN ret.out},
     itype \in ItypeInputs, metadata \in MetaValues, mac \in BOOLEAN :
    /\ op' = "construct"
    /\ args' = [kind |-> source.kind, itype |-> itype]
    /\ ret' = Img(source, itype, metadata, mac)
    /\ img' = Bind(ret')
    /\ UNCHANGED files

\* img = Img.open(path, itype, load_metadata)
Open ==
  \E path \in Paths, itype \in ImgType, load_metadata \in BOOLEAN :
    /\ op' = "open"
    /\ args' = [path |-> path, itype |-> itype, load_metadata |-> load_metadata]
    /\ ret' = open(files, path, itype, load_metadata)
    /\ img' = Bind(ret')
    /\ UNCHANGED files

\* img.rgb(), img.bgr(), img.pil()
Rgb ==
  /\ img # None
  /\ op' = "rgb"
  /\ args' = [path |-> ""]
  /\ ret' = [NoRet EXCEPT !.out = Some(rgb(img[1]))]
  /\ UNCHANGED <<img, files>>

Bgr ==
  /\ img # None
  /\ op' = "bgr"
  /\ args' = [path |-> ""]
  /\ ret' = [NoRet EXCEPT !.out = Some(bgr(img[1]))]
  /\ UNCHANGED <<img, files>>

Pil ==
  /\ img # None
  /\ op' = "pil"
  /\ args' = [path |-> ""]
  /\ ret' = [NoRet EXCEPT !.out = Some(pil(img[1]))]
  /\ UNCHANGED <<img, files>>

\* img.save(path, save_metadata, **kwargs)
Save ==
  /\ img # None
  /\ \E path \in SavePaths, save_metadata \in BOOLEAN, kwargs \in KwargsInputs :
       /\ op' = "save"
       /\ args' = [path |-> path, save_metadata |-> save_metadata,
                   kwargs |-> kwargs, before |-> files[path]]
       /\ ret' = save(img[1], files, path, save_metadata, kwargs).ret
       /\ files' = [files EXCEPT ![path] = save(img[1], files, path, save_metadata, kwargs).file]
       /\ UNCHANGED img

\* img.resize(width=width, height=height)
Resize ==
  /\ img # None
  /\ \E width \in 1..MaxDim, height \in 1..MaxDim :
       /\ op' = "resize"
       /\ args' = [width |-> width, height |-> height]
       /\ ret' = resize(img[1], width, height)
       /\ UNCHANGED <<img, files>>

\* img.crop(rectangle, copy)
Crop ==
  /\ img # None
  /\ \E rectangle \in Rectangles, copy \in BOOLEAN :
       /\ Inside(rectangle, img[1].size)
       /\ op' = "crop"
       /\ args' = [rectangle |-> rectangle, copy |-> copy]
       /\ ret' = crop(img[1], rectangle, copy)
       /\ UNCHANGED <<img, files>>

\* The caller goes on with the Img the last call returned.
Use ==
  /\ ret.img # None
  /\ img' = ret.img
  /\ op' = "use"
  /\ args' = [path |-> ""]
  /\ ret' = NoRet
  /\ UNCHANGED files

\* Construction, loading, conversion and geometry, on the files that exist.
NextMem ==
  \/ Construct
  \/ Open
  \/ Rgb
  \/ Bgr
  \/ Pil
  \/ Resize
  \/ Crop
  \/ Use

SpecMem == Init /\ [][NextMem]_vars

\* Construction, saving and loading.
NextIO ==
  \/ Construct
  \/ Open
  \/ Save
  \/ Use

SpecIO == Init /\ [][NextIO]_vars

-----------------------------------------------------------------------------
\* Properties.

\* The Img values that exist: the one held and the one just returned.
Live == {img[i] : i \in DOMAIN img} \cup {ret.img[i] : i \in DOMAIN ret.img}

IsBuffer(itype) == itype \in {BGR, RGB}

\* C1: every Img built with make_arrays_contiguous = True and itype BGR or
\* RGB holds a C-contiguous array in its source attribute, also when the
\* array passed in was not contiguous.
C1_SourceContiguous ==
  \A i \in Live :
    (i.make_arrays_contiguous /\ IsBuffer(i.itype)) => i.source.contig

\* C2: a save with save_metadata = True of an Img of any itype whose metadata
\* is a mapping M, followed by an open of the same path with load_metadata =
\* True and any itype, returns an Img whose metadata is M.
C2_MetadataRoundTrip ==
  [][ ( /\ op = "save" /\ ret.err = ""
        /\ args.save_metadata /\ img[1].metadata # None
        /\ op' = "open" /\ args'.path = args.path /\ args'.load_metadata )
      => ( /\ ret'.err = ""
           /\ ret'.img # None
           /\ ret'.img[1].metadata = img[1].metadata ) ]_vars

\* A loaded Img carries the mapping with a string and a float that only a
\* save can have put into out.png, as a BGR array.
C2_Witness ==
  /\ op = "open" /\ args.path = "out.png" /\ args.load_metadata
  /\ args.itype = BGR
  /\ ret.img # None
  /\ ret.img[1].metadata = Some(LabelScore)

\* C3: open with load_metadata = True of a file without an EXIF block, or
\* with an EXIF block that has no UserComment tag, returns an Img whose
\* metadata is None and raises nothing; it raises only when the tag is there
\* and its text is not JSON.
C3_AbsentMetadataIsNone ==
  (op = "open" /\ args.load_metadata /\ files[args.path] # None) =>
    LET exif == files[args.path][1].exif
        absent == exif = None \/ UserComment \notin DOMAIN exif[1]
    IN /\ absent => (ret.err = "" /\ ret.img # None /\ ret.img[1].metadata = None)
       /\ (ret.err # "") => (~absent /\ ~json_loads(exif[1][UserComment]).ok)

\* Two arrays of one shape hold the same pixels up to the swap of channels
\* 0 and 2, channel 1 unchanged.
SameUpToSwap(a, b) ==
  /\ Height(a) = Height(b) /\ Width(a) = Width(b)
  /\ \A r \in 1..Height(a), c \in 1..Width(a) :
       /\ a[r][c][1] = b[r][c][3]
       /\ a[r][c][2] = b[r][c][2]
       /\ a[r][c][3] = b[r][c][1]

\* C4: save calls PIL's encoder exactly when (save_metadata and metadata is
\* not None) or itype is PIL; otherwise it calls cv2's encoder, after exactly
\* one cvtColor when itype is RGB and none when it is BGR, the file holds the
\* image's pixels and no EXIF block.
C4_SaveRouting ==
  (op = "save" /\ ret.err = "") =>
    LET self == img[1]
        enc == ret.enc[1]
        wanted == (args.save_metadata /\ self.metadata # None) \/ self.itype = PIL
        file == files[args.path][1]
    IN /\ enc.encoder = (IF wanted THEN "PIL.save" ELSE "cv2.imwrite")
       /\ ~wanted =>
            /\ enc.cvt = (IF self.itype = RGB THEN 1 ELSE 0)
            /\ file.exif = None
            /\ IF self.itype = RGB THEN file.px = self.source.px
               ELSE SameUpToSwap(file.px, self.source.px)

\* An RGB Img with metadata is saved with save_metadata = False: cv2's encoder
\* is called after one conversion.
C4_Witness ==
  /\ op = "save" /\ ret.err = ""
  /\ img[1].itype = RGB /\ img[1].metadata # None /\ ~args.save_metadata
  /\ ret.enc[1].encoder = "cv2.imwrite" /\ ret.enc[1].cvt = 1

\* C5: save with save_metadata = True, metadata not None and an exif keyword
\* argument raises, calls no encoder and leaves the file at the path as it
\* was, for every itype.
C5_ConflictingExif ==
  (op = "save" /\ args.save_metadata /\ img[1].metadata # None
     /\ args.kwargs.exif # None) =>
    /\ ret.err = ErrExifInUse
    /\ ret.enc = None
    /\ files[args.path] = args.before

\* The conflicting save is refused for a BGR Img while a file saved earlier
\* is at the path.
C5_Witness ==
  /\ op = "save" /\ args.save_metadata /\ img[1].metadata # None
  /\ args.kwargs.exif # None
  /\ img[1].itype = BGR
  /\ args.before # None
  /\ ret.err = ErrExifInUse

\* The kind of source an itype stands for.
KindOf(itype) == IF itype = PIL THEN "PIL" ELSE "ndarray"

\* C6: in every Img that exists after any construct, open, crop and resize
\* calls, itype agrees with the type of source (PIL: a PIL image; BGR, RGB:
\* an array); a constructor call whose source disagrees with the itype
\* raises and returns no Img.
C6_TypeAgreement ==
  /\ \A i \in Live : i.itype \in ImgType /\ i.source.kind = KindOf(i.itype)
  /\ (op = "construct" /\ args.itype \in ImgType /\ args.kind # KindOf(args.itype)) =>
       /\ ret.err = (IF args.itype = PIL THEN ErrNotPIL ELSE ErrNotArray)
       /\ ret.img = None

\* The constructor is called with an array and itype PIL.
C6_Witness ==
  /\ op = "construct" /\ args.itype = PIL /\ args.kind = "ndarray"
  /\ ret.err = ErrNotPIL /\ ret.img = None

\* C7 as stated: on every save where the caller's keyword arguments do not
\* set optimize, the encoder is given optimize = True, whichever encoder is
\* called; when they set it, the encoder is given the caller's value.
C7_OptimizeEveryEncoder ==
  (op = "save" /\ ret.err = "") =>
    /\ (args.kwargs.optimize = None) => (ret.enc[1].kwargs.optimize = Some(TRUE))
    /\ (args.kwargs.optimize # None) => (ret.enc[1].kwargs.optimize = args.kwargs.optimize)

\* C7 amended: the above holds of the saves that call PIL's encoder; a save
\* that calls cv2's encoder passes it no options at all.
C7_OptimizePILOnly ==
  (op = "save" /\ ret.err = "") =>
    IF ret.enc[1].encoder = "PIL.save"
    THEN /\ (args.kwargs.optimize = None) => (ret.enc[1].kwargs.optimize = Some(TRUE))
         /\ (args.kwargs.optimize # None) =>
              (ret.enc[1].kwargs.optimize = args.kwargs.optimize)
    ELSE ret.enc[1].kwargs = NoKwargs

\* A save through PIL's encoder where the caller passed optimize = False.
C7_Witness ==
  /\ op = "save" /\ ret.err = ""
  /\ ret.enc[1].encoder = "PIL.save"
  /\ args.kwargs.optimize = Some(FALSE)
  /\ ret.enc[1].kwargs.optimize = Some(FALSE)

\* C8: crop and resize leave the receiver as it was (source, itype, metadata,
\* size, w, h) and the Img they return has the receiver's metadata and
\* itype; the size, w and h of every Img are those of its source.
C8_ReceiverUnchanged ==
  /\ [](\A i \in Live :
          /\ i.size = get_size(i.source, i.itype)
          /\ i.w = Width(i.source.px) /\ i.h = Height(i.source.px))
  /\ [][ (op' \in {"crop", "resize"}) =>
           /\ img' = img
           /\ ret'.img # None =>
                /\ ret'.img[1].metadata = img[1].metadata
                /\ ret'.img[1].itype = img[1].itype ]_vars

\* A crop of an Img with metadata returned an Img of another size, and the
\* receiver has the size of its source.
C8_Witness ==
  /\ op = "crop" /\ ret.img # None
  /\ img[1].metadata = Some(LabelScore)
  /\ ret.img[1].size # img[1].size
  /\ img[1].size = get_size(img[1].source, img[1].itype)

\* C9: crop of a PIL Img with copy = False raises and returns no Img; crop
\* of a PIL Img with copy = True, and crop of a BGR or RGB Img with either
\* value of copy, does not raise and returns an Img.
C9_CropCopy ==
  (op = "crop") =>
    IF img[1].itype = PIL /\ ~args.copy
    THEN ret.err = ErrPILCrop /\ ret.img = None
    ELSE ret.err = "" /\ ret.img # None

\* A PIL Img is cropped with copy = False.
C9_Witness ==
  /\ op = "crop" /\ img[1].itype = PIL /\ ~args.copy
  /\ ret.err = ErrPILCrop

\* The Img a caller makes of the array a converter returned.
Rewrap(arr, itype, self) == Img(arr, itype, None, self.make_arrays_contiguous).img[1]

\* C10: rgb(), bgr() and pil() of one Img hold the same pixels up to the swap
\* of channels 0 and 2, and for a BGR Img rgb() of the re-wrapped bgr() of the
\* re-wrapped rgb() equals rgb() pixel for pixel, for both values of
\* make_arrays_contiguous.
C10_ConvertersAgree ==
  \A self \in Live :
    /\ SameUpToSwap(rgb(self).px, bgr(self).px)
    /\ pil(self).px = rgb(self).px
    /\ self.itype = BGR =>
         rgb(Rewrap(bgr(Rewrap(rgb(self), RGB, self)), BGR, self)).px = rgb(self).px

\* rgb() of a BGR Img built with make_arrays_contiguous = False returned an
\* array whose first pixel is the source's with channels 0 and 2 swapped.
C10_Witness ==
  /\ op = "rgb" /\ img[1].itype = BGR /\ ~img[1].make_arrays_contiguous
  /\ img[1].source.px[1][1] = Orange
  /\ ret.out[1].px[1][1] = <<0, 128, 255>>

=============================================================================
